---------------------------- MODULE Spec2Model ----------------------------
(***************************************************************************)
(* Model of src/scopus-author-search-by-au-name-and-subject-area.ts: the   *)
(* streaming pipeline that resolves author names against the Scopus author *)
(* search: input lines -> records -> cache-or-fetch -> tee -> archive sink  *)
(* and candidate selector -> CSV rows.                                     *)
(*                                                                         *)
(* A JavaScript string is modelled as a sequence of tokens (a token is a   *)
(* one-character string such as "," or " ", or a word such as "Smith"      *)
(* that no operation of the program looks inside).  The empty string is    *)
(* <<>>.  split, trim, replaceAll, padStart and the unary + act on these   *)
(* sequences as the JavaScript operations act on the characters.           *)
(***************************************************************************)
EXTENDS Integers, Sequences, FiniteSets, TLC

VARIABLES
    input,      \* the lines of the input file (line 28), fixed for the run
    records,    \* what inputStream yields for them (lines 46-72)
    files,      \* the output/cache directory: path -> file content
    next,       \* position of the Fetch Stage in records
    pc,         \* Fetch Stage: "idle", or "search" while the gateway call is awaited
    reads,      \* per record fetched, how the cache read of lines 90-92 ended
    produced,   \* the chunks authorStream has yielded so far
    q1,         \* tee branch cachingAuthorStream: chunks not yet written
    q2,         \* tee branch preResultsAuthorStream: chunks not yet selected
    seenSink,   \* chunks the archive sink's write() has received, in order
    seenSel,    \* chunks the selector branch's filter has received, in order
    writes,     \* the paths the archive sink has opened and written, in order
    idSet,      \* line 208
    emitted,    \* the chunks resultsAuthorStream has yielded (ResolvedAuthors)
    columns,    \* line 282; <<>> stands for null
    rows,       \* the rows written to resultFile
    gwCalls,    \* number of authorSearchApi.search calls made in this run
    run,        \* 1 in the first execution of the program, 2 in a re-run
    prevProduced, \* the chunks the first execution's authorStream yielded
    prevRows,   \* the rows the first execution wrote
    rejected    \* cachingAuthorPromise has rejected: the await of line 305 throws

vars == <<input, records, files, next, pc, reads, produced, q1, q2, seenSink,
          seenSel, writes, idSet, emitted, columns, rows, gwCalls, run, prevProduced,
          prevRows, rejected>>

-----------------------------------------------------------------------------
(* Bounds of the model *)

\* longest input file, in lines
MaxLines == 2

-----------------------------------------------------------------------------
(* String operations *)

SP == " "
TAB == "\t"

\* the characters String.prototype.trim removes (those that occur in the model)
WhiteSpace == {SP, TAB}

RECURSIVE TrimStart(_)
TrimStart(s) ==
    IF s # <<>> /\ Head(s) \in WhiteSpace THEN TrimStart(Tail(s)) ELSE s

RECURSIVE TrimEnd(_)
TrimEnd(s) ==
    IF s # <<>> /\ s[Len(s)] \in WhiteSpace
    THEN TrimEnd(SubSeq(s, 1, Len(s) - 1))
    ELSE s

\* String.prototype.trim
Trim(s) == TrimEnd(TrimStart(s))

\* String.prototype.split(sep) for a one-character separator: the pieces
\* between the separators, always at least one piece
RECURSIVE SplitFrom(_, _, _)
SplitFrom(s, sep, piece) ==
    IF s = <<>> THEN <<piece>>
    ELSE IF Head(s) = sep THEN <<piece>> \o SplitFrom(Tail(s), sep, <<>>)
    ELSE SplitFrom(Tail(s), sep, Append(piece, Head(s)))

Split(s, sep) == SplitFrom(s, sep, <<>>)

\* String.prototype.split(sep, limit): the first limit pieces, the rest dropped
SplitLimit(s, sep, limit) ==
    LET all == Split(s, sep) IN
    IF Len(all) > limit THEN SubSeq(all, 1, limit) ELSE all

\* array destructuring [a, b, ...] = arr: element i, undefined when missing.
\* undefined is modelled as the empty string: the program only tests these
\* fields for truthiness, compares them with === against non-empty strings
\* (line 239) or copies them into the output.
At(arr, i) == IF i <= Len(arr) THEN arr[i] ELSE <<>>

\* String.prototype.replaceAll(from, to) for one-character from
ReplaceAll(s, from, to) == [i \in 1..Len(s) |-> IF s[i] = from THEN to ELSE s[i]]

\* String.prototype.padStart(n, pad)
RECURSIVE PadStart(_, _, _)
PadStart(s, n, pad) == IF Len(s) >= n THEN s ELSE PadStart(<<pad>> \o s, n, pad)

DigitChars == <<"0", "1", "2", "3", "4", "5", "6", "7", "8", "9">>

\* `${n}` for a non-negative integer n
RECURSIVE ToDecimal(_)
ToDecimal(n) ==
    IF n < 10 THEN <<DigitChars[n + 1]>>
    ELSE Append(ToDecimal(n \div 10), DigitChars[(n % 10) + 1])

DigitVal(c) == (CHOOSE d \in 1..10 : DigitChars[d] = c) - 1

\* unary + on a string of decimal digits
RECURSIVE ToNumber(_)
ToNumber(s) ==
    IF s = <<>> THEN 0
    ELSE 10 * ToNumber(SubSeq(s, 1, Len(s) - 1)) + DigitVal(s[Len(s)])


-----------------------------------------------------------------------------
(* The input file and inputStream (lines 46-72) *)

Fields == <<TAB, "ENGI", TAB, "1", TAB, "50">>

\* "Smith, J<TAB>ENGI<TAB>1<TAB>50"
LineSmithJ == <<"Smith", ",", SP, "J">> \o Fields

\* the same author with the initial written as Scopus writes it, on a line
\* with white space around the fields: "<TAB>Smith, J. <TAB>ENGI<TAB>1<TAB>50 "
LineSmithJDot == <<TAB, "Smith", ",", SP, "J", ".", SP>> \o Fields \o <<SP>>

\* no first name: "Smith,<TAB>ENGI<TAB>1<TAB>50"
LineSmith == <<"Smith", ",">> \o Fields

\* a line of white space only
LineBlank == <<SP, TAB>>

Lines == {LineSmithJ, LineSmithJDot, LineSmith, LineBlank}

RECURSIVE SeqsUpTo(_, _)
SeqsUpTo(S, n) ==
    IF n = 0 THEN {<<>>}
    ELSE LET shorter == SeqsUpTo(S, n - 1) IN
         shorter \cup {Append(s, x) : s \in {t \in shorter : Len(t) = n - 1}, x \in S}

Inputs == SeqsUpTo(Lines, MaxLines) \ {<<>>}

\* lines 57-70: one line that passed the filter of line 52, and the value of
\* count when it arrives
ParseLine(value, count) ==
    LET terms == [i \in 1..Len(Split(value, TAB)) |-> Trim(Split(value, TAB)[i])]
        name == At(terms, 1)
        parts == [i \in 1..Len(SplitLimit(name, ",", 2)) |->
                     Trim(SplitLimit(name, ",", 2)[i])]
    IN  [lastName |-> At(parts, 1),
         firstName |-> At(parts, 2),
         subjectArea |-> At(terms, 2),
         ind |-> At(terms, 3),
         nPub |-> At(terms, 4),
         name |-> name,
         index |-> PadStart(ToDecimal(count), 5, SP)]

\* lines 51-72: trim every line, drop the empty ones, number and parse the rest
RECURSIVE InputStream(_, _)
InputStream(lines, count) ==
    IF lines = <<>> THEN <<>>
    ELSE LET value == Trim(Head(lines)) IN
         IF value # <<>>
         THEN <<ParseLine(value, count)>> \o InputStream(Tail(lines), count + 1)
         ELSE InputStream(Tail(lines), count)

-----------------------------------------------------------------------------
(* File names (lines 10-39) *)

\* lines 10-13
getFileName(name) == <<"au-name-">> \o ReplaceAll(name, SP, "_") \o <<".json">>

configName == <<"top200-08-mahidol-university-energy-with-id-20241205">>
outputDir == <<"./target/output/">> \o configName
catchDir == outputDir

\* lines 33-35
getCache(name) == catchDir \o <<"/">> \o getFileName(name)

\* lines 37-39
getOuput(name) == outputDir \o <<"/">> \o getFileName(name)

-----------------------------------------------------------------------------
(* Search responses: ScopusSearchResponseBody<ScopusAuthorSearchEntry> *)

Entry(id, surname, given, initials, docCount) ==
    [identifier |-> <<"AUTHOR_ID", ":", id>>,
     surname |-> <<surname>>,
     givenName |-> <<given>>,
     initials |-> initials,
     documentCount |-> docCount]

A1 == Entry("A1", "Smith", "John", <<"J", ".">>, <<"3">>)
A2 == Entry("A2", "Smith", "Karl", <<"K", ".">>, <<"9">>)
A3 == Entry("A3", "Lee", "Kim", <<"K", ".">>, <<"1", "0">>)
A4 == Entry("A4", "Smith", "Jane", <<"J", ".">>, <<"3">>)

Body(total, entry) ==
    [kind |-> "body", totalResults |-> total, entry |-> entry]

\* the two candidates of the worked example
BodyTwo == Body(<<"2">>, <<A1, A2>>)
\* no match
BodyZero == Body(<<"0">>, <<>>)
\* one author listed twice, around an author of another surname
BodyDup == Body(<<"3">>, <<A1, A3, A1>>)
\* a non-matching author with the most documents, and two equal counts
BodyMixed == Body(<<"4">>, <<A4, A3, A1, A2>>)

Bodies == {BodyTwo, BodyZero, BodyDup, BodyMixed}

\* what authorSearchApi.search throws
SearchError == [kind |-> "Error", message |-> <<"search failed">>]


-----------------------------------------------------------------------------
(* Files.  A file is the JSON document at its start and the number of bytes *)
(* that follow the document; the directory is a function from the paths    *)
(* that exist to their files.                                              *)

\* the length of JSON.stringify(doc, undefined, 2), in units of the model
JsonSize(doc) == IF doc.kind = "body" THEN 1 + Len(doc.entry) ELSE 2

FileOf(doc) == [doc |-> doc, junk |-> 0]

\* lines 186-191: Deno.open with create and write but no truncate, then one
\* write at offset 0: the bytes of an existing longer file stay behind the data
WriteFile(fs, path, doc) ==
    LET oldSize == IF path \in DOMAIN fs
                   THEN JsonSize(fs[path].doc) + fs[path].junk ELSE 0
        left == IF oldSize > JsonSize(doc) THEN oldSize - JsonSize(doc) ELSE 0
    IN  [p \in DOMAIN fs \cup {path} |->
            IF p = path THEN [doc |-> doc, junk |-> left] ELSE fs[p]]

\* lines 90-92 with a read that always throws
CacheHitNever(fs, path) == FALSE

\* lines 90-92: Deno.readTextFile and JSON.parse succeed: the file exists and
\* is one JSON document with nothing after it
CacheHit(fs, path) == path \in DOMAIN fs /\ fs[path].junk = 0

\* a file a write of a short response over a longer one has left
DamagedFile == WriteFile([p \in {<<>>} |-> FileOf(BodyMixed)], <<>>, BodyZero)[<<>>]

InitContents == {FileOf(b) : b \in Bodies} \cup {DamagedFile}

CachePaths(recs) == {getCache(recs[i].name) : i \in 1..Len(recs)}

\* the directories the program may find: any of the cache files of its input
\* may be missing, hold an earlier response, or be damaged
InitFiles(recs) ==
    UNION {[P -> InitContents] : P \in SUBSET CachePaths(recs)}

-----------------------------------------------------------------------------
(* Fetch Stage: authorStream (lines 74-154) *)

\* lines 76-78
Query(r) ==
    IF r.firstName # <<>>
    THEN <<"AUTHLASTNAME(">> \o r.lastName \o <<") AND AUTHFIRST(">> \o r.firstName
         \o <<") AND SUBJAREA(">> \o r.subjectArea \o <<")">>
    ELSE <<"AUTHLASTNAME(">> \o r.lastName \o <<") AND SUBJAREA(">>
         \o r.subjectArea \o <<")">>

\* lines 112-123
Success(r, cached, body) ==
    [index |-> r.index, lastName |-> r.lastName, firstName |-> r.firstName,
     subjectArea |-> r.subjectArea, ind |-> r.ind, nPub |-> r.nPub,
     name |-> r.name, isCached |-> cached, body |-> body, type |-> "result"]

\* lines 126-151
Failure(r, message) ==
    [index |-> r.index, lastName |-> r.lastName, firstName |-> r.firstName,
     subjectArea |-> r.subjectArea, ind |-> r.ind, nPub |-> r.nPub,
     name |-> r.name, isCached |-> FALSE,
     body |-> [kind |-> "Error", message |-> message, query |-> Query(r)],
     type |-> "error"]

\* line 83
NameIsEmpty == <<"The name is empty">>

\* line 156: ReadableStream.tee() reads the next chunk of authorStream when one
\* of its two branches has nothing queued
TeePulls == q1 = <<>> \/ q2 = <<>>

\* streams.ts map(fn): the callback runs for one chunk at a time, and its
\* result is enqueued before the next chunk is taken
MapTakesNext == pc = "idle"

\* line 156 with a branch that holds one chunk and drops what arrives meanwhile
TeeEnqueueDrop(q, chunk) == IF q = <<>> THEN <<chunk>> ELSE q

\* line 156 with the chunk put in front of the waiting ones
TeeEnqueueFront(q, chunk) == <<chunk>> \o q

\* line 156: the chunk read is enqueued on both branches
TeeEnqueue(q, chunk) == Append(q, chunk)

\* lines 124-152 without the catch: the chunk of a failed record never arrives
YieldResultsOnly(chunk) ==
    /\ produced' = IF chunk.type = "error" THEN produced ELSE Append(produced, chunk)
    /\ q1' = IF chunk.type = "error" THEN q1 ELSE TeeEnqueue(q1, chunk)
    /\ q2' = IF chunk.type = "error" THEN q2 ELSE TeeEnqueue(q2, chunk)
    /\ next' = next + 1
    /\ pc' = "idle"

\* lines 124-152 calling the callback again for the record after an error
YieldRetriesError(chunk) ==
    IF chunk.type = "error"
    THEN pc' = "idle" /\ UNCHANGED <<produced, q1, q2, next>>
    ELSE /\ produced' = Append(produced, chunk)
         /\ q1' = TeeEnqueue(q1, chunk)
         /\ q2' = TeeEnqueue(q2, chunk)
         /\ next' = next + 1
         /\ pc' = "idle"

\* authorStream yields chunk: the tee passes it to both branches
Yield(chunk) ==
    /\ produced' = Append(produced, chunk)
    /\ q1' = TeeEnqueue(q1, chunk)
    /\ q2' = TeeEnqueue(q2, chunk)
    /\ next' = next + 1
    /\ pc' = "idle"

\* lines 90-93: how the read of the cache file ends: "hit", or the error the
\* catch of line 93 receives
ReadOutcome(fs, path) ==
    IF CacheHit(fs, path) THEN "hit"
    ELSE IF path \in DOMAIN fs THEN "SyntaxError"
    ELSE "NotFound"

\* the map of line 75 has a record to take and the tee asks for a chunk
FetchReady == MapTakesNext /\ next <= Len(records) /\ TeePulls

\* lines 75-94 and, on a cache hit, 111-123: the callback up to its first
\* result or up to the call of the gateway
FetchBegin ==
    /\ FetchReady
    /\ LET r == records[next] IN
       IF r.name = <<>>
       THEN /\ Yield(Failure(r, NameIsEmpty))
            /\ reads' = Append(reads, "none")
            /\ UNCHANGED gwCalls
       ELSE IF CacheHit(files, getCache(r.name))
       THEN /\ Yield(Success(r, TRUE, files[getCache(r.name)].doc))
            /\ reads' = Append(reads, "hit")
            /\ UNCHANGED gwCalls
       ELSE /\ pc' = "search"
            /\ reads' = Append(reads, ReadOutcome(files, getCache(r.name)))
            /\ gwCalls' = gwCalls + 1
            /\ UNCHANGED <<produced, q1, q2, next>>
    /\ UNCHANGED <<input, records, files, seenSink, seenSel, writes, idSet, emitted,
                   columns, rows, run, prevProduced, prevRows, rejected>>

\* lines 95-107: the call of authorSearchApi.search is awaited
SearchPending == pc = "search"

\* lines 95-152: authorSearchApi.search settles, with a response or an error
SearchReturn ==
    /\ SearchPending
    /\ \E outcome \in Bodies \cup {SearchError} :
          IF outcome.kind = "body"
          THEN Yield(Success(records[next], FALSE, outcome))
          ELSE Yield(Failure(records[next], outcome.message))
    /\ UNCHANGED <<input, records, files, reads, seenSink, seenSel, writes, idSet,
                   emitted, columns, rows, gwCalls, run, prevProduced, prevRows, rejected>>


-----------------------------------------------------------------------------
(* Archive Sink: cachingAuthorPromise (lines 158-195) *)

\* line 161 returning early for errors too
SkipsWriteOrError(chunk) ==
    \/ chunk.isCached /\ getCache(chunk.name) = getOuput(chunk.name)
    \/ chunk.body.kind = "Error"

\* line 161 without the early return
SkipsWriteNever(chunk) == FALSE

\* line 161
SkipsWrite(chunk) == chunk.isCached /\ getCache(chunk.name) = getOuput(chunk.name)

\* lines 183-186 without the prefix of line 185
ArchivePathNoPrefix(chunk) ==
    getOuput(IF chunk.name = <<>>
             THEN <<"inx">> \o ReplaceAll(chunk.index, SP, "0")
             ELSE chunk.name)

\* lines 183-186: the path the chunk is written to
ArchivePath(chunk) ==
    LET isError == chunk.body.kind = "Error"
        indexPrefix == <<"inx">> \o ReplaceAll(chunk.index, SP, "0")
        fileId == IF chunk.name = <<>> THEN indexPrefix ELSE chunk.name
        prefix == IF isError THEN <<"error-">> \o indexPrefix \o <<"-">> ELSE <<>>
    IN  getOuput(prefix \o fileId)

\* lines 166-180: what is serialized: the body, or name, message and cause of
\* the error
ArchiveDoc(chunk) == chunk.body

\* lines 158-160: the sink's branch has a chunk for write()
SinkReady == q1 # <<>>

\* lines 160-193: write() of the sink, for the chunk at the head of its branch
ArchiveWrite ==
    /\ SinkReady
    /\ LET chunk == Head(q1) IN
       /\ seenSink' = Append(seenSink, chunk)
       /\ IF SkipsWrite(chunk)
          THEN UNCHANGED <<files, writes>>
          ELSE /\ files' = WriteFile(files, ArchivePath(chunk), ArchiveDoc(chunk))
               /\ writes' = Append(writes, ArchivePath(chunk))
    /\ q1' = Tail(q1)
    /\ UNCHANGED <<input, records, next, pc, reads, produced, q2, seenSel, idSet, emitted,
                   columns, rows, gwCalls, run, prevProduced, prevRows, rejected>>

\* line 305: the await of Promise.all has not thrown; when it throws, the
\* module's evaluation ends with the error and the process exits
Running == ~rejected

\* lines 186-190 when Deno.open or write throws: the file is as it was (the
\* open failed), or it holds a part of the data, which does not parse
FailedWriteFiles(fs, path, doc) ==
    {fs, [p \in DOMAIN fs \cup {path} |->
             IF p = path THEN [doc |-> doc, junk |-> 1] ELSE fs[p]]}

\* lines 160-193 when the open or the write of lines 186-190 throws: write()
\* has no try, so it rejects, the pipeTo of line 158 rejects with it, and the
\* await of line 305 throws
ArchiveWriteFails ==
    /\ Running
    /\ SinkReady
    /\ ~SkipsWrite(Head(q1))
    /\ seenSink' = Append(seenSink, Head(q1))
    /\ q1' = Tail(q1)
    /\ files' \in FailedWriteFiles(files, ArchivePath(Head(q1)), ArchiveDoc(Head(q1)))
    /\ rejected' = TRUE
    /\ UNCHANGED <<input, records, next, pc, reads, produced, q2, seenSel, writes, idSet,
                   emitted, columns, rows, gwCalls, run, prevProduced, prevRows>>

-----------------------------------------------------------------------------
(* Candidate Selector: resultsAuthorStream (lines 197-273) *)

\* streams.ts filter(fn): the chunk passes when the callback returns true
Filter(keep, chunk) == IF keep THEN <<chunk>> ELSE <<>>

\* lines 200-203
HasResults(result) ==
    result.type # "error" /\ ToNumber(result.body.totalResults) > 0

\* lines 222 and 245: entry['dc:identifier'].split(':')[1]
EntryId(entry) == At(Split(entry.identifier, ":"), 2)

\* line 222 without the filter
NotInIdSetNoFilter(entries, ids) == entries

\* line 222
NotInIdSet(entries, ids) == SelectSeq(entries, LAMBDA entry : EntryId(entry) \notin ids)

\* lines 223-231: the comparator
Compare(pre, nxt) ==
    LET docCountPre == ToNumber(pre.documentCount)
        docCountNext == ToNumber(nxt.documentCount)
    IN  IF docCountPre > docCountNext THEN -1
        ELSE IF docCountPre < docCountNext THEN 1
        ELSE 0

\* a sort that is not stable: of two entries the comparator holds equal, the
\* one later in the array comes first
ComesBeforeTiesReversed(entries, i, j) ==
    IF i < j THEN Compare(entries[j], entries[i]) > 0
    ELSE Compare(entries[i], entries[j]) <= 0

\* Array.prototype.sort with the comparator of lines 223-231.  The sort is
\* stable: of two entries, the one later in the array comes first only when
\* the comparator puts it strictly before the other.
ComesBefore(entries, i, j) ==
    IF i < j THEN Compare(entries[j], entries[i]) >= 0
    ELSE Compare(entries[i], entries[j]) < 0

Sort(entries) ==
    LET n == Len(entries)
        rank == [i \in 1..n |->
                    1 + Cardinality({j \in 1..n : j # i /\ ComesBefore(entries, j, i)})]
    IN  [p \in 1..n |-> entries[CHOOSE i \in 1..n : rank[i] = p]]

\* lines 236-239 without the test of the initials
NameMatchesSurnameOnly(entry, lastName, firstName) == entry.surname = lastName

\* lines 236-239 with the initials compared up to their full stops
NameMatchesNoStops(entry, lastName, firstName) ==
    /\ entry.surname = lastName
    /\ \/ firstName = <<>>
       \/ SelectSeq(entry.initials, LAMBDA ch : ch # ".")
            = SelectSeq(firstName, LAMBDA ch : ch # ".")

\* lines 236-239 without the !firstName of line 238
NameMatchesInitialsRequired(entry, lastName, firstName) ==
    /\ entry.surname = lastName
    /\ entry.initials = firstName

\* lines 236-239: the predicate of find
NameMatches(entry, lastName, firstName) ==
    /\ entry.surname = lastName
    /\ (firstName = <<>> \/ entry.initials = firstName)

\* lines 234-240: find, or else the first of sortedEntries; a sequence of no
\* or one entry (no entry: undefined)
FindOrFirst(sortedEntries, lastName, firstName) ==
    LET found == SelectSeq(sortedEntries,
                           LAMBDA entry : NameMatches(entry, lastName, firstName))
    IN  IF found # <<>> THEN <<found[1]>>
        ELSE IF sortedEntries # <<>> THEN <<sortedEntries[1]>>
        ELSE <<>>

\* the element of a one-element set; {F(x) : x \in {e}} names the value of e
\* as x, so that it is computed once
Only(S) == CHOOSE x \in S : TRUE

\* lines 221-240: result
SelectResult(entries, ids, lastName, firstName) ==
    Only({FindOrFirst(sortedEntries, lastName, firstName) :
            sortedEntries \in {Sort(unclaimed) :
                                 unclaimed \in {NotInIdSet(entries, ids)}}})

\* Object.keys of the object of lines 252-265
ObjectKeys ==
    <<"id", "name", "ind", "given-name", "surname", "initials",
      "number-of-publications", "searching-subject-area", "document-count",
      "lastName", "firstName", "index">>

\* lines 245-266
ResolvedAuthor(chunk, result) ==
    [k \in {ObjectKeys[i] : i \in 1..Len(ObjectKeys)} |->
        CASE k = "id" -> EntryId(result)
          [] k = "name" -> chunk.name
          [] k = "ind" -> chunk.ind
          [] k = "given-name" -> result.givenName
          [] k = "surname" -> result.surname
          [] k = "initials" -> result.initials
          [] k = "number-of-publications" -> chunk.nPub
          [] k = "searching-subject-area" -> chunk.subjectArea
          [] k = "document-count" -> result.documentCount
          [] k = "lastName" -> chunk.lastName
          [] k = "firstName" -> chunk.firstName
          [] k = "index" -> chunk.index]

\* lines 210-271 yielding a row for every candidate left, not only for result
SelectedAll(chunk, ids) ==
    Only({[i \in 1..Len(sortedEntries) |-> ResolvedAuthor(chunk, sortedEntries[i])] :
            sortedEntries \in {Sort(unclaimed) :
                                 unclaimed \in {NotInIdSet(chunk.body.entry, ids)}}})

\* lines 210-271: what the flatMap callback returns for a chunk
Selected(chunk, ids) ==
    Only({IF result # <<>> THEN <<ResolvedAuthor(chunk, result[1])>> ELSE <<>> :
            result \in {SelectResult(chunk.body.entry, ids, chunk.lastName,
                                     chunk.firstName)}})

\* line 249 left out
AddIdsNone(ids, authors) == ids

\* line 208 inside the callback of line 210: a new set for every record
AddIdsPerRecord(ids, authors) == {authors[i]["id"] : i \in 1..Len(authors)}

\* line 249
AddIds(ids, authors) == ids \cup {authors[i]["id"] : i \in 1..Len(authors)}

-----------------------------------------------------------------------------
(* Tabular Emitter: resultsAuthorPromise (lines 275-303) *)

\* stringify([entry], {headers: false, columns}): the values in column order
DataRow(entry, cols) == [i \in 1..Len(cols) |-> entry[cols[i]]]

\* stringify([columns], {headers: false})
HeaderRow(cols) == [i \in 1..Len(cols) |-> <<cols[i]>>]

\* lines 286-299 without the test of line 287: the header before every row
EmitRowsHeaderAlways(authors, cols) ==
    IF authors = <<>> THEN <<>>
    ELSE <<HeaderRow(ObjectKeys), DataRow(authors[1], ObjectKeys)>>

\* lines 286-299, for the entries one selector call yields
EmitRows(authors, cols) ==
    IF authors = <<>> THEN <<>>
    ELSE IF cols = <<>>
    THEN <<HeaderRow(ObjectKeys), DataRow(authors[1], ObjectKeys)>>
    ELSE <<DataRow(authors[1], cols)>>

\* lines 197-199: the selector's branch has a chunk for the filter
SelectorReady == q2 # <<>>

\* lines 197-303 for the chunk at the head of the selector's branch: filter,
\* selector and emitter run one after the other without waiting
Select ==
    /\ SelectorReady
    /\ \E authors \in {IF Filter(HasResults(Head(q2)), Head(q2)) # <<>>
                         THEN Selected(Head(q2), idSet)
                         ELSE <<>>} :
          /\ seenSel' = Append(seenSel, Head(q2))
          /\ idSet' = AddIds(idSet, authors)
          /\ emitted' = emitted \o authors
          /\ columns' = IF authors # <<>> /\ columns = <<>> THEN ObjectKeys ELSE columns
          /\ rows' = rows \o EmitRows(authors, columns)
    /\ q2' = Tail(q2)
    /\ UNCHANGED <<input, records, files, next, pc, reads, produced, q1, seenSink, writes,
                   gwCalls, run, prevProduced, prevRows, rejected>>

-----------------------------------------------------------------------------
(* The program *)

Init ==
    /\ input \in Inputs
    /\ records = InputStream(input, 1)
    /\ files \in InitFiles(records)
    /\ next = 1
    /\ pc = "idle"
    /\ reads = <<>>
    /\ produced = <<>>
    /\ q1 = <<>>
    /\ q2 = <<>>
    /\ seenSink = <<>>
    /\ seenSel = <<>>
    /\ writes = <<>>
    /\ idSet = {}
    /\ emitted = <<>>
    /\ columns = <<>>
    /\ rows = <<>>
    /\ gwCalls = 0
    /\ run = 1
    /\ prevProduced = <<>>
    /\ prevRows = <<>>
    /\ rejected = FALSE

\* line 305: both promises have resolved
Done == next > Len(records) /\ pc = "idle" /\ q1 = <<>> /\ q2 = <<>> /\ ~rejected

Next == FetchBegin \/ SearchReturn \/ ArchiveWrite \/ Select

Spec == Init /\ [][Next]_vars

\* The two consumers of the tee are pipeTo loops: each takes the chunk at the
\* head of its branch as soon as its previous write has settled.
FairSpec == Spec /\ WF_vars(ArchiveWrite) /\ WF_vars(Select)

\* The program is started again on the same input file once its first
\* execution has ended and the cache directory holds a well-formed file for
\* every name of the input: the directory is what the first execution left,
\* everything else starts as in Init (lines 208, 276-282).
Rerun ==
    /\ run = 1
    /\ Done
    /\ \A k \in 1..Len(records) :
          /\ getCache(records[k].name) \in DOMAIN files
          /\ files[getCache(records[k].name)].junk = 0
    /\ run' = 2
    /\ prevProduced' = produced
    /\ prevRows' = rows
    /\ next' = 1
    /\ pc' = "idle"
    /\ reads' = <<>>
    /\ produced' = <<>>
    /\ q1' = <<>>
    /\ q2' = <<>>
    /\ seenSink' = <<>>
    /\ seenSel' = <<>>
    /\ writes' = <<>>
    /\ idSet' = {}
    /\ emitted' = <<>>
    /\ columns' = <<>>
    /\ rows' = <<>>
    /\ gwCalls' = 0
    /\ UNCHANGED <<input, records, files, rejected>>

NextRerun == Next \/ Rerun

SpecRerun == Init /\ [][NextRerun]_vars


\* The program in a directory where the open or the write of an archive file
\* may fail (lines 186-190): after the failure nothing runs any more.
NextWriteFail ==
    \/ Running /\ FetchBegin
    \/ Running /\ SearchReturn
    \/ Running /\ ArchiveWrite
    \/ Running /\ Select
    \/ ArchiveWriteFails

SpecWriteFail == Init /\ [][NextWriteFail]_vars

\* Every cache read, gateway call and file write returns or fails, and the
\* event loop runs what is ready.
FairSpecWriteFail == SpecWriteFail /\ WF_vars(NextWriteFail)

-----------------------------------------------------------------------------
(* Vocabulary of the properties *)

\* the ResolvedAuthors emitted for the record with this index
EmittedFor(index) == SelectSeq(emitted, LAMBDA a : a["index"] = index)

\* the identifiers claimed by the records offered to the selector before the
\* k-th one
ClaimedBefore(k) ==
    {a["id"] : a \in {emitted[i] : i \in {j \in 1..Len(emitted) :
        \E h \in 1..(k - 1) : seenSel[h].index = emitted[j]["index"]}}}

\* the candidates of the k-th chunk offered to the selector whose identifier
\* no earlier record has claimed
Unclaimed(k) ==
    {e \in {seenSel[k].body.entry[i] : i \in 1..Len(seenSel[k].body.entry)} :
        EntryId(e) \notin ClaimedBefore(k)}

\* the k-th chunk offered to the selector is a Success with a positive total
Offered(k) ==
    /\ seenSel[k].type = "result"
    /\ ToNumber(seenSel[k].body.totalResults) > 0

\* candidate e answers the name of query q: same surname and, when the query
\* has a first name, initials equal to it
AnswersName(e, q) ==
    /\ e.surname = q.lastName
    /\ (q.firstName # <<>> => e.initials = q.firstName)

\* e is a best candidate of the set U for query q: a name-answering candidate
\* with the most documents among those when there is one, and otherwise a
\* candidate with the most documents of all
IsBest(e, U, q) ==
    LET named == {c \in U : AnswersName(c, q)}
        pool == IF named # {} THEN named ELSE U
    IN  /\ e \in pool
        /\ \A c \in pool : ToNumber(c.documentCount) <= ToNumber(e.documentCount)

BestIds(U, q) == {EntryId(e) : e \in {c \in U : IsBest(c, U, q)}}

\* the number of lines of the input file with a character that is not white
\* space
NonBlank(lines) ==
    Cardinality({i \in 1..Len(lines) :
                    \E c \in 1..Len(lines[i]) : lines[i][c] \notin WhiteSpace})

EntrySet(body) == {body.entry[i] : i \in 1..Len(body.entry)}

\* author a is the row of candidate e
RowOf(a, e) ==
    /\ a["id"] = EntryId(e)
    /\ a["surname"] = e.surname
    /\ a["initials"] = e.initials
    /\ a["document-count"] = e.documentCount

-----------------------------------------------------------------------------
(* C1 *)

\* C1: no external identifier is emitted in more than one ResolvedAuthor: the
\* ids of the emitted authors are pairwise distinct, also when one response
\* lists the same identifier several times.
C1_EmittedIdsDistinct ==
    \A i, j \in 1..Len(emitted) : i # j => emitted[i]["id"] # emitted[j]["id"]

\* the selector has handled a response that lists one identifier twice, after
\* an earlier record emitted, and two authors have been emitted
C1_Witness ==
    /\ Len(emitted) = 2
    /\ \E k \in 1..Len(seenSel) :
          /\ Offered(k)
          /\ \E i, j \in 1..Len(seenSel[k].body.entry) :
                /\ i # j
                /\ EntryId(seenSel[k].body.entry[i]) = EntryId(seenSel[k].body.entry[j])

-----------------------------------------------------------------------------
(* C2 *)

-----------------------------------------------------------------------------
(* C3 *)

\* C3: whenever an unclaimed candidate of a response answers the name of the
\* query (same surname and, if the query has a first name, initials equal to
\* it), the candidate selected is one of those, the one with the most
\* documents among them, whatever the document counts of the others.
C3_NameMatchPreferred ==
    \A k \in 1..Len(seenSel) :
        (/\ Offered(k)
         /\ \E e \in Unclaimed(k) : AnswersName(e, seenSel[k]))
        => LET sel == EmittedFor(seenSel[k].index)
               named == {e \in Unclaimed(k) : AnswersName(e, seenSel[k])}
           IN  /\ Len(sel) = 1
               /\ \E e \in named :
                     /\ RowOf(sel[1], e)
                     /\ \A c \in named :
                           ToNumber(c.documentCount) <= ToNumber(e.documentCount)

\* a name-answering candidate was selected although an unclaimed candidate
\* that does not answer the name has strictly more documents
C3_Witness ==
    \E k \in 1..Len(seenSel) :
        /\ Offered(k)
        /\ Len(EmittedFor(seenSel[k].index)) = 1
        /\ \E e, c \in Unclaimed(k) :
              /\ AnswersName(e, seenSel[k])
              /\ RowOf(EmittedFor(seenSel[k].index)[1], e)
              /\ ~AnswersName(c, seenSel[k])
              /\ ToNumber(c.documentCount) > ToNumber(e.documentCount)

-----------------------------------------------------------------------------
(* C4 *)

\* the k-th chunk offered to the selector is the record of the input name
\* "Smith, J" with the response of candidates A1 (Smith, J., 3) and A2
\* (Smith, K., 9), neither of them claimed
C4_Case(k) ==
    /\ seenSel[k].name = <<"Smith", ",", SP, "J">>
    /\ Offered(k)
    /\ seenSel[k].body.entry = <<A1, A2>>
    /\ ClaimedBefore(k) \cap {<<"A1">>, <<"A2">>} = {}

\* C4 as stated: for the record "Smith, J" (lastName "Smith", firstName "J")
\* and the candidates A1 (Smith, J., 3) and A2 (Smith, K., 9), both unclaimed,
\* the selector selects A1.
C4_Original ==
    \A k \in 1..Len(seenSel) :
        C4_Case(k)
        => /\ seenSel[k].lastName = <<"Smith">>
           /\ seenSel[k].firstName = <<"J">>
           /\ Len(EmittedFor(seenSel[k].index)) = 1
           /\ EmittedFor(seenSel[k].index)[1]["id"] = <<"A1">>

\* C4 amended: for the record "Smith, J" (lastName "Smith", firstName "J") and
\* the candidates A1 (Smith, J., 3) and A2 (Smith, K., 9), both unclaimed, the
\* selector selects A2: the initials "J." are not equal to "J", no candidate
\* matches the name, and the one with the most documents is taken.  With the
\* input name "Smith, J." it selects A1.
C4_SelectsA2 ==
    \A k \in 1..Len(seenSel) :
        /\ C4_Case(k)
           => /\ seenSel[k].lastName = <<"Smith">>
              /\ seenSel[k].firstName = <<"J">>
              /\ Len(EmittedFor(seenSel[k].index)) = 1
              /\ EmittedFor(seenSel[k].index)[1]["id"] = <<"A2">>
        /\ (/\ seenSel[k].name = <<"Smith", ",", SP, "J", ".">>
            /\ Offered(k)
            /\ seenSel[k].body.entry = <<A1, A2>>
            /\ ClaimedBefore(k) \cap {<<"A1">>, <<"A2">>} = {})
           => /\ seenSel[k].firstName = <<"J", ".">>
              /\ Len(EmittedFor(seenSel[k].index)) = 1
              /\ EmittedFor(seenSel[k].index)[1]["id"] = <<"A1">>

\* the selector has handled the record "Smith, J" with the two candidates
C4_Witness ==
    \E k \in 1..Len(seenSel) :
        /\ C4_Case(k)
        /\ LineSmithJ = input[1]
        /\ EmittedFor(seenSel[k].index) # <<>>

-----------------------------------------------------------------------------
(* C5 *)

\* C5: every record yields at most one ResolvedAuthor, and the number of
\* ResolvedAuthors, and of the data rows written for them, is at most the
\* number of non-blank input lines.
C5_AtMostOnePerRecord ==
    /\ \A k \in 1..Len(records) : Len(EmittedFor(records[k].index)) <= 1
    /\ Len(emitted) <= NonBlank(input)
    /\ rows # <<>> => Len(rows) - 1 <= NonBlank(input)
    /\ Len(records) = NonBlank(input)

\* a run over an input with a blank line has ended with one author for every
\* non-blank line
C5_Witness ==
    /\ Done
    /\ NonBlank(input) < Len(input)
    /\ Len(emitted) = NonBlank(input)
    /\ Len(emitted) >= 1
    /\ Len(rows) = Len(emitted) + 1


-----------------------------------------------------------------------------
(* C6 *)

\* the first execution used, for every record, the response the cache holds
\* for the record's name
SameResponses ==
    /\ Len(prevProduced) = Len(records)
    /\ \A k \in 1..Len(records) :
          /\ prevProduced[k].type = "result"
          /\ getCache(records[k].name) \in DOMAIN files
          /\ prevProduced[k].body = files[getCache(records[k].name)].doc

\* C6: a second execution on the same input, with the cache holding an entry
\* for every input name, calls the Search Gateway zero times, and when it has
\* ended its rows are the rows of the execution that used those responses.
C6_CacheIdempotent ==
    run = 2 =>
        /\ gwCalls = 0
        /\ (Done /\ SameResponses) => rows = prevRows

\* a second execution has ended after a first one that called the gateway
\* and wrote rows
C6_Witness ==
    /\ run = 2
    /\ Done
    /\ SameResponses
    /\ Len(records) = 2
    /\ \E k \in 1..Len(prevProduced) : ~prevProduced[k].isCached
    /\ Len(rows) = 3

-----------------------------------------------------------------------------
(* C7 *)

\* the k-th FetchResult belongs to the k-th record, and errors and results
\* carry what the Fetch Stage gives them
C7_Tagged(k) ==
    /\ produced[k].index = records[k].index
    /\ produced[k].name = records[k].name
    /\ records[k].name = <<>> => produced[k].type = "error"
    /\ produced[k].type = "error"
       => /\ produced[k].body.kind = "Error"
          /\ ~produced[k].isCached
          /\ reads[k] # "hit"
    /\ reads[k] = "hit" => produced[k].type = "result" /\ produced[k].isCached
    /\ reads[k] \in {"NotFound", "SyntaxError"} => ~produced[k].isCached

\* no record's error stops the pipeline: while something is left to do a
\* step is possible, and at the end every record has been fetched, archived
\* and offered to the selector
C7_Isolated ==
    /\ Len(produced) <= Len(reads)
    /\ ~Done => FetchReady \/ SearchPending \/ SinkReady \/ SelectorReady
    /\ Done => /\ Len(produced) = Len(records)
               /\ seenSink = produced
               /\ seenSel = produced

\* C7 as stated: every per-record error, an unparsable cache entry among them,
\* becomes a Failure-tagged FetchResult of that record, and no record's error
\* keeps another record from being fetched, archived and offered.
C7_Original ==
    /\ C7_Isolated
    /\ \A k \in 1..Len(produced) :
          /\ C7_Tagged(k)
          /\ reads[k] = "SyntaxError" => produced[k].type = "error"

\* C7 amended: an empty name or a gateway failure becomes a Failure-tagged
\* FetchResult of that record (never marked as cached); an unreadable or
\* unparsable cache entry is a cache miss, after which the result is what the
\* gateway call gives; no record's error keeps another record from being
\* fetched, archived and offered to the selector.
C7_ErrorsIsolated ==
    /\ C7_Isolated
    /\ \A k \in 1..Len(produced) :
          /\ C7_Tagged(k)
          /\ produced[k].type = "error" /\ records[k].name # <<>>
             => produced[k].body.message = SearchError.message

\* a run has ended in which the first record failed and the second, whose
\* cache file could not be parsed, succeeded, both archived and offered
C7_Witness ==
    /\ Done
    /\ Len(produced) = 2
    /\ produced[1].type = "error"
    /\ reads[2] = "SyntaxError"
    /\ produced[2].type = "result"
    /\ seenSink = produced
    /\ seenSel = produced

-----------------------------------------------------------------------------
(* C8 *)

\* every chunk produced is, on each branch, either observed or waiting, once
\* and in its place, and no record is fetched twice
C8_Once ==
    /\ seenSink \o q1 = produced
    /\ seenSel \o q2 = produced
    /\ Len(produced) <= Len(records)
    /\ \A i, j \in 1..Len(produced) : i # j => produced[i].index # produced[j].index
    /\ gwCalls <= Len(records)

\* C8: every FetchResult is observed exactly once by the archive branch and
\* exactly once by the selector branch, whatever the interleaving; the Fetch
\* Stage runs once per record; and each branch goes on to observe every
\* FetchResult produced.
C8_TeeExactlyOnce ==
    /\ []C8_Once
    /\ \A n \in 1..MaxLines :
          (Len(produced) >= n) ~> (Len(seenSink) >= n /\ Len(seenSel) >= n)

\* the selector branch has observed two chunks while the archive branch has
\* observed none
C8_Witness ==
    /\ Len(seenSel) = 2
    /\ seenSink = <<>>
    /\ Len(q1) = 2

-----------------------------------------------------------------------------
(* C9 *)

IsPrefix(s, t) == Len(s) <= Len(t) /\ s = SubSeq(t, 1, Len(s))

-----------------------------------------------------------------------------
(* C10 *)

\* a Failure, or a Success whose total is zero
Dropped(chunk) ==
    \/ chunk.type = "error"
    \/ chunk.type = "result" /\ ToNumber(chunk.body.totalResults) = 0

\* the selector's step for a dropped chunk emits nothing and leaves the dedup
\* set as it is
C10_SelectorDrops ==
    (q2 # <<>> /\ seenSel' = Append(seenSel, Head(q2)) /\ Dropped(Head(q2)))
    => /\ emitted' = emitted
       /\ idSet' = idSet
       /\ rows' = rows

\* the sink's step for the chunk writes the chunk's file, which then starts
\* with the serialized error or response
C10_Written(chunk) ==
    /\ writes' = Append(writes, ArchivePath(chunk))
    /\ ArchivePath(chunk) \in DOMAIN files'
    /\ files'[ArchivePath(chunk)].doc = chunk.body

\* C10 as stated: a Failure or a zero-match Success produces no
\* ResolvedAuthor and does not change the dedup set, and the Archive Sink
\* writes an archive file for it.
C10_Original ==
    [][/\ C10_SelectorDrops
       /\ (q1 # <<>> /\ seenSink' = Append(seenSink, Head(q1)) /\ Dropped(Head(q1)))
          => C10_Written(Head(q1))]_vars

\* C10 amended: a Failure or a zero-match Success produces no ResolvedAuthor
\* and does not change the dedup set; the Archive Sink writes an archive file
\* for it, the serialized error or raw empty response at its start, unless it
\* is a zero-match Success read from the cache: then nothing is written, and
\* the file at its archive path, the cache file it was read from, is left as
\* it is.
C10_DroppedStillArchived ==
    [][/\ C10_SelectorDrops
       /\ (q1 # <<>> /\ seenSink' = Append(seenSink, Head(q1)) /\ Dropped(Head(q1)))
          => IF Head(q1).isCached
             THEN /\ files' = files
                  /\ writes' = writes
                  /\ getOuput(Head(q1).name) \in DOMAIN files
                  /\ getOuput(Head(q1).name) = getCache(Head(q1).name)
             ELSE C10_Written(Head(q1))]_vars

\* both branches have handled a Failure and a zero-match Success read from
\* the cache: nothing was emitted, and only the Failure was written
C10_Witness ==
    /\ Done
    /\ Len(produced) = 2
    /\ produced[1].type = "error"
    /\ Dropped(produced[2])
    /\ produced[2].type = "result"
    /\ produced[2].isCached
    /\ emitted = <<>>
    /\ idSet = {}
    /\ writes = <<ArchivePath(produced[1])>>
    /\ files[ArchivePath(produced[1])].doc = produced[1].body

-----------------------------------------------------------------------------
(* C11 *)

\* the field names of a ResolvedAuthor in the order of the object literal of
\* lines 252-265, written out
C11_FieldOrder ==
    <<"id", "name", "ind", "given-name", "surname", "initials",
      "number-of-publications", "searching-subject-area", "document-count",
      "lastName", "firstName", "index">>

\* the row of values of author a in the order of the field names order
C11_ValuesOf(a, order) == [i \in 1..Len(order) |-> a[order[i]]]

\* C11: the tabular output has a header row exactly when a ResolvedAuthor has
\* been emitted: with no ResolvedAuthor it has no row at all; otherwise its
\* first row is the header, the field names of the first ResolvedAuthor in
\* their order, it is followed by one data row for every ResolvedAuthor, in
\* order of emission and each in the header's column order, and no header is
\* written again.
C11_HeaderWithFirstRow ==
    /\ (rows = <<>>) <=> (emitted = <<>>)
    /\ (columns = <<>>) <=> (emitted = <<>>)
    /\ emitted # <<>>
       => /\ columns = C11_FieldOrder
          /\ DOMAIN emitted[1] = {C11_FieldOrder[i] : i \in 1..Len(C11_FieldOrder)}
          /\ rows[1] = [i \in 1..Len(C11_FieldOrder) |-> <<C11_FieldOrder[i]>>]
          /\ Len(rows) = Len(emitted) + 1
          /\ \A i \in 1..Len(emitted) :
                /\ rows[i + 1] = C11_ValuesOf(emitted[i], C11_FieldOrder)
                /\ rows[i + 1] # rows[1]

\* two ResolvedAuthors have been written: a header and two data rows
C11_Witness ==
    /\ Len(emitted) = 2
    /\ Len(rows) = 3
    /\ rows[2] # rows[3]

\* a run has ended without a ResolvedAuthor although a record was offered to
\* the selector: the tabular output is empty
C11_WitnessNoHeader ==
    /\ Done
    /\ Len(seenSel) = 2
    /\ emitted = <<>>
    /\ rows = <<>>

-----------------------------------------------------------------------------
(* C12 *)

\* the chunk was read from the cache and its cache path is its output path
C12_Redundant(chunk) ==
    chunk.isCached /\ getCache(chunk.name) = getOuput(chunk.name)

\* the chunks the sink has received that are not redundant, in order
C12_ToWrite == SelectSeq(seenSink, LAMBDA chunk : ~C12_Redundant(chunk))

\* the sink's write() is called with the chunk at the head of its branch
C12_SinkTakes == q1 # <<>> /\ seenSink' = Append(seenSink, Head(q1))

\* C12: the Archive Sink handles every FetchResult it receives once: for an
\* item read from the cache whose cache path equals its output path it writes
\* nothing and leaves every file as it is; for every other item it performs
\* exactly one write, of the item's error or response to the item's archive
\* file, and touches no other file; so the writes made are one per received
\* item that is not redundant, in order, and every Failure and every Success
\* obtained from the Search Gateway has been written once received.
C12_ArchivedOnce ==
    /\ [](/\ Len(writes) = Len(C12_ToWrite)
          /\ \A i \in 1..Len(writes) : writes[i] = ArchivePath(C12_ToWrite[i])
          /\ \A k \in 1..Len(seenSink) :
                (seenSink[k].type = "error" \/ ~seenSink[k].isCached)
                => \E i \in 1..Len(writes) : writes[i] = ArchivePath(seenSink[k]))
    /\ [][C12_SinkTakes
          => IF C12_Redundant(Head(q1))
             THEN files' = files /\ writes' = writes
             ELSE /\ writes' = Append(writes, ArchivePath(Head(q1)))
                  /\ DOMAIN files' = DOMAIN files \cup {ArchivePath(Head(q1))}
                  /\ files'[ArchivePath(Head(q1))].doc = Head(q1).body
                  /\ \A p \in DOMAIN files :
                        p # ArchivePath(Head(q1)) => files'[p] = files[p]]_vars

\* the sink has received a Success of the gateway, which it wrote, and a
\* Success with candidates read from the cache, for which it wrote nothing
C12_Witness ==
    /\ Len(seenSink) = 2
    /\ seenSink[1].type = "result"
    /\ ~seenSink[1].isCached
    /\ seenSink[2].type = "result"
    /\ seenSink[2].isCached
    /\ ToNumber(seenSink[2].body.totalResults) > 0
    /\ writes = <<ArchivePath(seenSink[1])>>

-----------------------------------------------------------------------------
(* C13 *)

\* the number of chunks a branch of the tee of line 156 holds before it stops
\* asking for more: the high-water mark of its default queuing strategy
TeeBuffer == 1

\* C13: the tee applies backpressure to the Fetch Stage when either branch
\* lags: at every moment the FetchResults produced and not yet consumed by a
\* branch, the slower one too, are at most the fixed buffer size, whatever
\* the length of the input.
C13_BoundedLag ==
    /\ Len(q1) <= TeeBuffer
    /\ Len(q2) <= TeeBuffer

\* the Fetch Stage has gone through the whole input while the archive branch
\* has consumed nothing: its backlog is the length of the input
C13_BacklogIsInput ==
    /\ Len(records) = MaxLines
    /\ Len(q1) = Len(records)
    /\ seenSink = <<>>
    /\ Len(seenSel) >= Len(records) - 1

-----------------------------------------------------------------------------
(* C14 *)

\* nothing of the pipeline can run any more: the run is at its end
C14_Stopped ==
    ~(Running /\ (FetchReady \/ SearchPending \/ SinkReady \/ SelectorReady))

\* C14: a failure while writing one item's archive file is fatal to that item
\* only: the run does not stop before the Archive Sink has received every
\* item, the later ones too, and the selector branch has received every item
\* and written the row of every ResolvedAuthor.
C14_WriteFailureIsolated ==
    C14_Stopped
    => /\ Len(seenSink) = Len(records)
       /\ Len(seenSel) = Len(records)
       /\ rows # <<>> => Len(rows) = Len(emitted) + 1

\* the write of the first item failed and the run stopped with the second
\* record never fetched
C14_StoppedEarly ==
    /\ rejected
    /\ C14_Stopped
    /\ Len(records) = 2
    /\ Len(seenSink) = 1
    /\ next = 2

-----------------------------------------------------------------------------
(* C15 *)

\* the FetchResults produced that came from a call of the Search Gateway:
\* the Successes not read from the cache and the Failures of named records
C15_FromGateway ==
    {k \in 1..Len(produced) : ~produced[k].isCached /\ produced[k].name # <<>>}

\* the cache file of the name does not exist or is not one JSON document
C15_Missed(name) ==
    \/ getCache(name) \notin DOMAIN files
    \/ files[getCache(name)].junk # 0

\* C15: the Search Gateway is called at most once per record and never
\* again after it failed: the calls made are one for every FetchResult that
\* came from the gateway and one for the call awaited.  It is called only
\* for a record whose name is not empty and whose cache file is missing or
\* does not parse, and the result of that record is then produced with
\* fromCache false.  A record with an empty name becomes a Failure with
\* fromCache false without a cache lookup or a call; a record whose cache
\* file parses becomes a Success with fromCache true that carries the cached
\* response, without a call.
C15_OneCallPerMiss ==
    /\ [](/\ gwCalls = Cardinality(C15_FromGateway) + (IF pc = "search" THEN 1 ELSE 0)
          /\ gwCalls <= Len(records)
          /\ Len(reads) = Len(produced) + (IF pc = "search" THEN 1 ELSE 0))
    /\ [][/\ gwCalls' # gwCalls
             => /\ gwCalls' = gwCalls + 1
                /\ pc = "idle" /\ pc' = "search"
                /\ next' = next /\ next = Len(produced) + 1
                /\ records[next].name # <<>>
                /\ C15_Missed(records[next].name)
          /\ pc = "search" /\ pc' # pc
             => /\ Len(produced') = Len(produced) + 1
                /\ ~produced'[Len(produced')].isCached
                /\ produced'[Len(produced')].index = records[next].index
                /\ next' = next + 1
                /\ gwCalls' = gwCalls
          /\ pc = "idle" /\ Len(produced') = Len(produced) + 1
             => /\ gwCalls' = gwCalls
                /\ produced'[Len(produced')].index = records[next].index
                /\ IF records[next].name = <<>>
                   THEN /\ produced'[Len(produced')].type = "error"
                        /\ ~produced'[Len(produced')].isCached
                        /\ reads'[Len(reads')] = "none"
                   ELSE /\ produced'[Len(produced')].type = "result"
                        /\ produced'[Len(produced')].isCached
                        /\ ~C15_Missed(records[next].name)
                        /\ produced'[Len(produced')].body
                             = files[getCache(records[next].name)].doc]_vars

\* the first record's cache file did not parse and the gateway failed for it,
\* once; the second record was read from the cache without a call
C15_Witness ==
    /\ Len(produced) = 2
    /\ reads = <<"SyntaxError", "hit">>
    /\ produced[1].type = "error"
    /\ produced[2].type = "result"
    /\ produced[2].isCached
    /\ gwCalls = 1

-----------------------------------------------------------------------------
(* C16 *)

\* the index of the chunk, padded with zeros to five digits
C16_ZeroPadded(chunk) == PadStart(ToDecimal(ToNumber(Trim(chunk.index))), 5, "0")

\* the identifier of the chunk's archive file without a prefix: the name, or
\* inx and the zero-padded index when the name is empty
C16_FileId(chunk) ==
    IF chunk.name # <<>> THEN chunk.name ELSE <<"inx">> \o C16_ZeroPadded(chunk)

\* the path of the archive file of an identifier: the output directory, then
\* au-name-, the identifier with its spaces as underscores, and .json
C16_PathOf(id) ==
    <<"./target/output/", "top200-08-mahidol-university-energy-with-id-20241205",
      "/", "au-name-">>
    \o [i \in 1..Len(id) |-> IF id[i] = SP THEN "_" ELSE id[i]] \o <<".json">>

\* the sink writes the chunk at the head of its branch
C16_Writes ==
    /\ q1 # <<>>
    /\ seenSink' = Append(seenSink, Head(q1))
    /\ writes' # writes

\* C16 as stated: the archive file of an item is that of the item's name, or
\* of inx and the zero-padded index when the name is empty, prefixed with
\* exactly "error-" when the item is a Failure.
C16_Original ==
    [][C16_Writes
       => writes' = Append(writes,
             C16_PathOf((IF Head(q1).type = "error" THEN <<"error-">> ELSE <<>>)
                        \o C16_FileId(Head(q1))))]_vars

\* C16 amended: the archive file of an item is that of the item's name, or of
\* inx and the zero-padded index when the name is empty, prefixed, when the
\* item is a Failure, with "error-inx", the zero-padded index and "-".  So a
\* Failure is never written to the cache path of its own name, its write
\* leaves the file at that path as it is, and a record served from the cache
\* is given a response, never the error archived for a record of its name.
C16_ErrorFilePrefixed ==
    /\ [](\A k \in 1..Len(produced) :
             produced[k].isCached
             => produced[k].type = "result" /\ produced[k].body.kind = "body")
    /\ [][C16_Writes
          => /\ writes' = Append(writes,
                   C16_PathOf((IF Head(q1).type = "error"
                               THEN <<"error-", "inx">> \o C16_ZeroPadded(Head(q1)) \o <<"-">>
                               ELSE <<>>)
                              \o C16_FileId(Head(q1))))
             /\ Head(q1).type = "error"
                => /\ writes'[Len(writes')] # getCache(Head(q1).name)
                   /\ getCache(Head(q1).name) \in DOMAIN files'
                      => /\ getCache(Head(q1).name) \in DOMAIN files
                         /\ files'[getCache(Head(q1).name)]
                              = files[getCache(Head(q1).name)]]_vars

\* a record failed in the first execution, which wrote its error file, and
\* the second execution served the record from the cache, with the response
\* another record of the same name had left there
C16_Witness ==
    /\ run = 2
    /\ Len(produced) >= 1
    /\ prevProduced[1].type = "error"
    /\ ArchivePath(prevProduced[1]) \in DOMAIN files
    /\ files[ArchivePath(prevProduced[1])].doc.kind = "Error"
    /\ produced[1].isCached
    /\ produced[1].body.kind = "body"

-----------------------------------------------------------------------------
(* C17 *)

\* the k-th chunk offered to the selector is a response with candidates for
\* a record without a first name
C17_NoFirstName(k) == Offered(k) /\ seenSel[k].firstName = <<>>

\* the unclaimed candidates of the k-th chunk with the surname of the record
C17_Surnamed(k) == {e \in Unclaimed(k) : e.surname = seenSel[k].lastName}

\* C17: for a record without a first name the initials of the candidates are
\* ignored: the selector picks an unclaimed candidate with the most
\* documents among those whose surname is the record's lastName, or, when no
\* unclaimed candidate has that surname, one with the most documents of all,
\* and nothing when no candidate is unclaimed.  For the input name "Smith,"
\* (lastName "Smith", no firstName) and the unclaimed candidates A1 (Smith,
\* J., 3) and A2 (Smith, K., 9) it picks A2.
C17_NoFirstNameBySurname ==
    [](\A k \in 1..Len(seenSel) :
        /\ C17_NoFirstName(k)
           => LET sel == EmittedFor(seenSel[k].index)
                  unclaimed == Unclaimed(k)
                  surnamed == {e \in unclaimed : e.surname = seenSel[k].lastName}
                  pool == IF surnamed # {} THEN surnamed ELSE unclaimed
              IN  IF unclaimed = {} THEN sel = <<>>
                  ELSE /\ Len(sel) = 1
                       /\ \E e \in pool :
                             /\ RowOf(sel[1], e)
                             /\ \A c \in pool :
                                   ToNumber(c.documentCount) <= ToNumber(e.documentCount)
        /\ (/\ seenSel[k].name = <<"Smith", ",">>
            /\ Offered(k)
            /\ seenSel[k].body.entry = <<A1, A2>>
            /\ ClaimedBefore(k) \cap {<<"A1">>, <<"A2">>} = {})
           => /\ seenSel[k].lastName = <<"Smith">>
              /\ seenSel[k].firstName = <<>>
              /\ Len(EmittedFor(seenSel[k].index)) = 1
              /\ EmittedFor(seenSel[k].index)[1]["id"] = <<"A2">>)

\* the selector has handled the record "Smith," with the candidates A1 and
\* A2 and picked A2
C17_Witness ==
    \E k \in 1..Len(seenSel) :
        /\ seenSel[k].name = <<"Smith", ",">>
        /\ Offered(k)
        /\ seenSel[k].body.entry = <<A1, A2>>
        /\ ClaimedBefore(k) \cap {<<"A1">>, <<"A2">>} = {}
        /\ Len(EmittedFor(seenSel[k].index)) = 1
        /\ EmittedFor(seenSel[k].index)[1]["id"] = <<"A2">>

\* for a record without a first name a candidate of the record's surname was
\* picked although one of another surname has more documents
C17_WitnessSurname ==
    \E k \in 1..Len(seenSel) :
        /\ C17_NoFirstName(k)
        /\ Len(EmittedFor(seenSel[k].index)) = 1
        /\ \E e \in C17_Surnamed(k), c \in Unclaimed(k) :
              /\ RowOf(EmittedFor(seenSel[k].index)[1], e)
              /\ c.surname # seenSel[k].lastName
              /\ ToNumber(c.documentCount) > ToNumber(e.documentCount)

\* for a record without a first name no unclaimed candidate had the
\* record's surname, and the one with the most documents was picked
C17_WitnessFallback ==
    \E k \in 1..Len(seenSel) :
        /\ C17_NoFirstName(k)
        /\ Unclaimed(k) # {}
        /\ C17_Surnamed(k) = {}
        /\ Len(EmittedFor(seenSel[k].index)) = 1

-----------------------------------------------------------------------------
(* C18 *)

\* the places in the k-th response offered to the selector of the candidates
\* no earlier record has claimed
C18_UnclaimedAt(k) ==
    {i \in 1..Len(seenSel[k].body.entry) :
        EntryId(seenSel[k].body.entry[i]) \notin ClaimedBefore(k)}

\* the places of the candidates the selection is made among: the unclaimed
\* ones that answer the record's name, or all the unclaimed ones when none
\* answers it
C18_EligibleAt(k) ==
    LET named == {i \in C18_UnclaimedAt(k) :
                     AnswersName(seenSel[k].body.entry[i], seenSel[k])}
    IN  IF named # {} THEN named ELSE C18_UnclaimedAt(k)

\* the document count of the candidate at place i of the k-th response
C18_CountAt(k, i) == ToNumber(seenSel[k].body.entry[i].documentCount)

\* the ResolvedAuthor emitted for the k-th chunk is the candidate at place i
C18_PickedAt(k, i) ==
    /\ Len(EmittedFor(seenSel[k].index)) = 1
    /\ RowOf(EmittedFor(seenSel[k].index)[1], seenSel[k].body.entry[i])
    /\ EmittedFor(seenSel[k].index)[1]["given-name"] = seenSel[k].body.entry[i].givenName

\* C18: the candidates are ordered by documentCount, most first, by a stable
\* sort: the candidate selected has the most documents among the unclaimed
\* candidates it is chosen among (those answering the name, or all when none
\* answers it), and of those with that same count it is the one that comes
\* first in the response.
C18_StableByDocumentCount ==
    [](\A k \in 1..Len(seenSel) :
        Offered(k)
        => LET eligible == C18_EligibleAt(k) IN
           eligible # {}
           => \E i \in eligible :
                 /\ C18_PickedAt(k, i)
                 /\ \A j \in eligible :
                       \/ C18_CountAt(k, j) < C18_CountAt(k, i)
                       \/ C18_CountAt(k, j) = C18_CountAt(k, i) /\ i <= j)

\* of two different candidates that answer the name and have the same
\* number of documents, the one earlier in the response was selected
C18_Witness ==
    \E k \in 1..Len(seenSel) :
        /\ Offered(k)
        /\ \E i, j \in C18_EligibleAt(k) :
              /\ i < j
              /\ C18_PickedAt(k, i)
              /\ AnswersName(seenSel[k].body.entry[j], seenSel[k])
              /\ C18_CountAt(k, j) = C18_CountAt(k, i)
              /\ EntryId(seenSel[k].body.entry[j]) # EntryId(seenSel[k].body.entry[i])

\* of two different candidates with the same number of documents, when no
\* unclaimed candidate answers the name, the one earlier in the response was
\* selected (two earlier records must have claimed the candidates with more
\* documents: runs of three records)
C18_WitnessNoneAnswers ==
    \E k \in 1..Len(seenSel) :
        /\ Offered(k)
        /\ \E i, j \in C18_EligibleAt(k) :
              /\ i < j
              /\ C18_PickedAt(k, i)
              /\ ~AnswersName(seenSel[k].body.entry[i], seenSel[k])
              /\ C18_CountAt(k, j) = C18_CountAt(k, i)
              /\ EntryId(seenSel[k].body.entry[j]) # EntryId(seenSel[k].body.entry[i])

-----------------------------------------------------------------------------
(* C19 *)

\* both branches have finished with every record handled: received by the
\* Archive Sink and written unless redundant, and received by the selector
C19_BothFinished ==
    /\ Done
    /\ Len(seenSink) = Len(records)
    /\ Len(writes) = Len(C12_ToWrite)
    /\ Len(seenSel) = Len(records)

\* C19: when every cache read, gateway call and file write returns or fails,
\* the run eventually terminates with both branches finished: every record
\* has been handled by the Archive Sink (written, or skipped as cached) and by
\* the Candidate Selector (emitted or dropped).
C19_Terminates == <>C19_BothFinished

-----------------------------------------------------------------------------
(* C20 *)

\* the external identifiers of the ResolvedAuthors emitted so far
C20_EmittedIds == {emitted[i]["id"] : i \in 1..Len(emitted)}

\* C20: at every point of a run the dedup set is exactly the set of the
\* external identifiers of the ResolvedAuthors emitted so far (empty at the
\* start); a step never removes an identifier from it; a step that emits
\* nothing leaves it as it is; a step that emits a ResolvedAuthor emits one,
\* whose identifier was not in the set before the step, and adds exactly
\* that identifier.
C20_DedupSetIsEmittedIds ==
    /\ [](idSet = C20_EmittedIds)
    /\ [][/\ idSet \subseteq idSet'
          /\ emitted' = emitted => idSet' = idSet
          /\ emitted' # emitted
             => /\ Len(emitted') = Len(emitted) + 1
                /\ SubSeq(emitted', 1, Len(emitted)) = emitted
                /\ emitted'[Len(emitted')]["id"] \notin idSet
                /\ idSet' = idSet \cup {emitted'[Len(emitted')]["id"]}]_vars

\* two records have emitted, the second one from a response that also lists
\* the identifier the first had claimed
C20_Witness ==
    /\ Len(emitted) = 2
    /\ Len(seenSel) = 2
    /\ idSet = {emitted[1]["id"], emitted[2]["id"]}
    /\ Cardinality(idSet) = 2
    /\ \E i \in 1..Len(seenSel[2].body.entry) :
          EntryId(seenSel[2].body.entry[i]) = emitted[1]["id"]

=============================================================================
